---- MODULE Spec2Model ----
(***************************************************************************)
(* Model of the Exchange Online dynamic-distribution-group runbook         *)
(* (ddlcreate_new_exchange_online_runbook_enhanced.ps1).                   *)
(*                                                                         *)
(* A string is a sequence of one-character strings, so that Substring,     *)
(* Trim, Length and the regular expressions of the script are computed and *)
(* not assumed.  The directory service is the environment: every remote    *)
(* call attempt either throws or returns, chosen nondeterministically.     *)
(***************************************************************************)
EXTENDS Integers, Sequences, FiniteSets, TLC

\* ------------------------------------------------------------------ bounds

\* longest free text of a generated department string
MaxTextLen == 4
\* most departments the listing returns in one run
MaxDepts == 2
\* largest -MaxRetries value a run is started with (0 .. MaxRetriesLimit)
MaxRetriesLimit == 3
\* most departments of a listing that is reconciled by two runs in sequence
MaxDeptsTwice == 1
\* departments of the longest listing of the reporting scenario
MaxScenarioDepts == 10

\* ------------------------------------------------------- characters, strings

Digits == {"0","1","2","3","4","5","6","7","8","9"}
UpperLetters == {"A","B","C","D","E","F","G","H","I","J","K","L","M",
                 "N","O","P","Q","R","S","T","U","V","W","X","Y","Z"}
LowerLetters == {"a","b","c","d","e","f","g","h","i","j","k","l","m",
                 "n","o","p","q","r","s","t","u","v","w","x","y","z"}
\* \s of the .NET regular expressions, and the characters Trim() removes
Whitespace == {" ", "\t", "\n"}

\* $null where a string is expected, and $null where an error message is expected
NullString == <<>>
NullError == "null"

\* String.Substring(startIndex, length), startIndex counted from 0
Substring(s, startIndex, length) == SubSeq(s, startIndex + 1, startIndex + length)

RECURSIVE TrimStart(_)
TrimStart(s) ==
    IF Len(s) > 0 /\ s[1] \in Whitespace THEN TrimStart(Tail(s)) ELSE s

RECURSIVE TrimEnd(_)
TrimEnd(s) ==
    IF Len(s) > 0 /\ s[Len(s)] \in Whitespace
    THEN TrimEnd(SubSeq(s, 1, Len(s) - 1))
    ELSE s

\* String.Trim()
Trim(s) == TrimEnd(TrimStart(s))

\* [string]::IsNullOrWhiteSpace
IsNullOrWhiteSpace(s) == \A i \in 1..Len(s) : s[i] \in Whitespace

\* -------------------------------------------------------- regular expressions

\* The character class [A-Z] as the operators -match / -notmatch apply it:
\* they compare case-insensitively (the case-sensitive operators are
\* -cmatch / -cnotmatch, which the script does not use).
MatchClassAZ == UpperLetters \cup LowerLetters

\* One step of the automaton of  ^[0-9]{5}\s+.+\s+-\s+[A-Z]{3}$ .
\* States: 0..5 digits read, 6 in the first \s+, 7 in .+, 8 in the second
\* \s+, 9 after '-', 10 in the third \s+, 11..13 letters read, 14 after the
\* newline that $ allows before the end of the string.
PatternStep(q, c, letters, dollarNewline) ==
    (IF q \in 0..4 /\ c \in Digits THEN {q + 1} ELSE {})
    \cup (IF q \in {5, 6} /\ c \in Whitespace THEN {6} ELSE {})
    \cup (IF q \in {6, 7} /\ c # "\n" THEN {7} ELSE {})
    \cup (IF q \in {7, 8} /\ c \in Whitespace THEN {8} ELSE {})
    \cup (IF q = 8 /\ c = "-" THEN {9} ELSE {})
    \cup (IF q \in {9, 10} /\ c \in Whitespace THEN {10} ELSE {})
    \cup (IF q \in 10..12 /\ c \in letters THEN {q + 1} ELSE {})
    \cup (IF q = 13 /\ c = "\n" /\ dollarNewline THEN {14} ELSE {})

RECURSIVE PatternRun(_, _, _, _, _)
PatternRun(s, i, Q, letters, dollarNewline) ==
    IF i > Len(s) \/ Q = {}
    THEN Q
    ELSE PatternRun(s, i + 1,
                    UNION {PatternStep(q, s[i], letters, dollarNewline) : q \in Q},
                    letters, dollarNewline)

PatternMatch(s, letters, dollarNewline) ==
    PatternRun(s, 1, {0}, letters, dollarNewline) \cap {13, 14} # {}

\* $DepartmentName -match '^[0-9]{5}\s+.+\s+-\s+[A-Z]{3}$'
MatchDepartmentPattern(s) == PatternMatch(s, MatchClassAZ, TRUE)

\* $deptNum -match '^[0-9]{5}$' on the 5 characters Substring(0, 5) returns
MatchFiveDigits(s) == Len(s) = 5 /\ \A i \in 1..5 : s[i] \in Digits

\* $countryCode -match '^[A-Z]{3}$' on the 3 characters Substring(Length - 3, 3) returns
MatchThreeLetters(s) == Len(s) = 3 /\ \A i \in 1..3 : s[i] \in MatchClassAZ

\* ------------------------------------------------------------ pure functions

MinLength == 13

TooShort == "Department name too short (minimum 13 characters required)"
InvalidFormat == "Invalid format. Expected: '12345 Department Name - USA'"

\* mutant: the length check dropped (the pattern alone rejects short strings)
Test_DepartmentFormatNoLength(DepartmentName) ==
    IF ~MatchDepartmentPattern(DepartmentName)
    THEN [IsValid |-> FALSE, Error |-> InvalidFormat]
    ELSE [IsValid |-> TRUE, Error |-> NullError]

Test_DepartmentFormat(DepartmentName) ==
    IF Len(DepartmentName) < MinLength
    THEN [IsValid |-> FALSE, Error |-> TooShort]
    ELSE IF ~MatchDepartmentPattern(DepartmentName)
    THEN [IsValid |-> FALSE, Error |-> InvalidFormat]
    ELSE [IsValid |-> TRUE, Error |-> NullError]

ParseFailure(message) ==
    [Success |-> FALSE, Number |-> NullString, Name |-> NullString,
     CountryCode |-> NullString, Error |-> message]

\* $endPos - $startPos with $startPos = 6 and $endPos = Length - 7
NameLength(DepartmentName) == (Len(DepartmentName) - 7) - 6

Get_DepartmentComponents(DepartmentName) ==
    IF Len(DepartmentName) < 5
    THEN ParseFailure("Index and length must refer to a location within the string")
    ELSE
    LET deptNum == Substring(DepartmentName, 0, 5)
        countryCode == Substring(DepartmentName, Len(DepartmentName) - 3, 3)
        startPos == 6
        nameLength == NameLength(DepartmentName)
        deptName == Trim(Substring(DepartmentName, startPos, nameLength))
    IN  IF ~MatchFiveDigits(deptNum)
        THEN ParseFailure("Invalid department number: must be exactly 5 digits")
        ELSE IF ~MatchThreeLetters(countryCode)
        THEN ParseFailure("Invalid country code: must be exactly 3 uppercase letters")
        ELSE IF nameLength <= 0
        THEN ParseFailure("Empty department name detected")
        ELSE IF IsNullOrWhiteSpace(deptName)
        THEN ParseFailure("Department name is empty after parsing")
        ELSE [Success |-> TRUE, Number |-> deptNum, Name |-> deptName,
              CountryCode |-> countryCode, Error |-> NullError]

\* The filter text: the two interpolated values between the fixed pieces.
New_RecipientFilter(DepartmentNumber, CountryCode) ==
    <<"((RecipientTypeDetails -eq 'UserMailbox' -or RecipientTypeDetails -eq 'MailUser') -and Department -like '">>
    \o DepartmentNumber
    \o <<"*' -and Department -like '*">>
    \o CountryCode
    \o <<"' -and Name -notlike 'SystemMailbox*' -and Name -notlike 'CAS_*' -and Name -notlike 'HealthMailbox*' -and Name -notlike 'DiscoverySearchMailbox*' -and RecipientTypeDetails -ne 'SharedMailbox' -and RecipientTypeDetails -ne 'RoomMailbox' -and RecipientTypeDetails -ne 'EquipmentMailbox' -and RecipientTypeDetails -ne 'PublicFolder' -and RecipientTypeDetails -ne 'ArbitrationMailbox')">>

\* $groupName and $displayName of the loop body
GroupName(components) == components.Number \o components.CountryCode
DisplayName(components) == components.Name \o <<" ", "-", " ">> \o components.CountryCode

\* ------------------------------------------------------------------- inputs

\* Department strings a listing can return (run specifications).
DeptFinanceUSA == <<"1","2","3","4","5"," ","F","i","n","a","n","c","e"," ","-"," ","U","S","A">>
DeptPayrollUSA == <<"1","2","3","4","5"," ","P","a","y","r","o","l","l"," ","-"," ","U","S","A">>
DeptAccountsPayable == <<"1","0","0","2","3"," ","A","c","c","o","u","n","t","s"," ","P","a","y","a","b","l","e"," ","-"," ","U","S","A">>
DeptTooShort == <<"1","2","3"," ","-"," ","U","S">>
DeptMinimal == <<"1","2","3","4","5"," ","A"," ","-"," ","U","S","A">>
DeptBadCode == <<"1","2","3","4","5"," ","F","i","n","a","n","c","e"," ","-"," ","U","1","A">>
DeptLowerCode == <<"2","0","0","0","1"," ","S","a","l","e","s"," ","-"," ","u","s","a">>

DepartmentCatalog ==
    {DeptFinanceUSA, DeptPayrollUSA, DeptAccountsPayable, DeptTooShort,
     DeptMinimal, DeptBadCode, DeptLowerCode}

\* Select-Object -Unique: a listing holds no string twice.
DepartmentLists ==
    UNION {{l \in [1..n -> DepartmentCatalog] :
                \A i, j \in 1..n : i # j => l[i] # l[j]} : n \in 0..MaxDepts}

\* Generated department strings (string specification): a number, the free
\* text and a country code around the separators, well formed or not.
TextAlphabet == {"A", " ", "-"}
Texts == UNION {[1..n -> TextAlphabet] : n \in 0..MaxTextLen}
NumberParts == {<<"1","2","3","4","5">>, <<"1","2","3","4","a">>}
LeadingSeparators == {<<" ">>, <<" "," ">>}
MiddleSeparators == {<<" ">>, <<" "," ">>, <<>>}
TrailingSeparators == {<<" ">>, <<>>}
CodeParts == {<<"U","S","A">>, <<"u","s","a">>, <<"U","1","A">>}
Endings == {<<>>, <<"\n">>}

GeneratedStrings ==
    {n \o w1 \o t \o w2 \o <<"-">> \o w3 \o c \o e :
        n \in NumberParts, w1 \in LeadingSeparators, t \in Texts,
        w2 \in MiddleSeparators, w3 \in TrailingSeparators, c \in CodeParts,
        e \in Endings}
    \cup {DeptAccountsPayable}

\* ---------------------------------------------------------------- directory

DynamicGroup == "DynamicDistributionGroup"
UserMailbox == "UserMailbox"

NullObject ==
    [Name |-> NullString, Kind |-> "null", DisplayName |-> NullString,
     RecipientFilter |-> NullString]

\* if ($x) on an object or $null
Truthy(o) == o.Kind # "null"

StaleGroup(name) ==
    [Name |-> name, Kind |-> DynamicGroup, DisplayName |-> <<"o","l","d">>,
     RecipientFilter |-> <<"old filter">>]
Mailbox(name) ==
    [Name |-> name, Kind |-> UserMailbox, DisplayName |-> <<"m","b","x">>,
     RecipientFilter |-> NullString]

\* the group names the departments of a listing derive
TargetNames(list) ==
    {GroupName(Get_DepartmentComponents(list[i])) :
        i \in {j \in 1..Len(list) : Test_DepartmentFormat(list[j]).IsValid
                                    /\ Get_DepartmentComponents(list[j]).Success}}

\* Directories a run can start in: each target name free, held by a dynamic
\* group with an older definition, or held by a mailbox.
InitialDirectories(list) ==
    {{IF f[n] = DynamicGroup THEN StaleGroup(n) ELSE Mailbox(n) :
            n \in {m \in TargetNames(list) : f[m] # "free"}} :
        f \in [TargetNames(list) -> {"free", DynamicGroup, UserMailbox}]}

\* Get-Recipient -Identity $name -ErrorAction SilentlyContinue, when it returns
Get_Recipient(dir, name) ==
    IF \E o \in dir : o.Name = name
    THEN CHOOSE o \in dir : o.Name = name
    ELSE NullObject

\* Get-DynamicDistributionGroup -Identity $name -ErrorAction SilentlyContinue, when it returns
Get_DynamicDistributionGroup(dir, name) ==
    IF \E o \in dir : o.Name = name /\ o.Kind = DynamicGroup
    THEN CHOOSE o \in dir : o.Name = name /\ o.Kind = DynamicGroup
    ELSE NullObject

\* New-DynamicDistributionGroup ... -ErrorAction Stop: the directory refuses a
\* name that is in use (the call throws), otherwise it adds the group.
NameInUse(dir, name) == \E o \in dir : o.Name = name

New_DynamicDistributionGroup(dir, name, display, filter) ==
    dir \cup {[Name |-> name, Kind |-> DynamicGroup, DisplayName |-> display,
               RecipientFilter |-> filter]}

\* mutant: the update leaves the display name of the group alone
Set_DynamicDistributionGroupFilterOnly(dir, name, display, filter) ==
    {IF o.Name = name /\ o.Kind = DynamicGroup
     THEN [o EXCEPT !.RecipientFilter = filter]
     ELSE o : o \in dir}

\* Set-DynamicDistributionGroup -Identity -DisplayName -RecipientFilter
\* -ErrorAction Stop: throws when no dynamic group bears the name.
Set_DynamicDistributionGroup(dir, name, display, filter) ==
    {IF o.Name = name /\ o.Kind = DynamicGroup
     THEN [o EXCEPT !.DisplayName = display, !.RecipientFilter = filter]
     ELSE o : o \in dir}

\* ----------------------------------------------------------- retry executor

\* $_.Exception.Message of the exception attempt n of an operation throws
ExceptionMessage(n) == "exception of attempt " \o ToString(n)

\* line 150: the line written for a failed attempt
LogLine(name, attempt, message) ==
    "  Attempt " \o ToString(attempt) \o " failed for " \o name \o " : " \o message

\* mutant: the returned error names the operation
ReturnedErrorAnnotated(name, message) == name \o " : " \o message

\* line 155: Error = $_.Exception.Message
ReturnedError(name, message) == message

\* mutant: a bound below 1 is taken as 1
NewCallAtLeastOnce(name, maxRetries) ==
    [OperationName |-> name,
     MaxRetries |-> IF maxRetries < 1 THEN 1 ELSE maxRetries, attempt |-> 1,
     invoked |-> <<>>, slept |-> <<>>, logged |-> <<>>, returned |-> FALSE,
     returnedNull |-> FALSE,
     result |-> [Success |-> FALSE, Result |-> NullObject, Error |-> NullError]]

\* mutant: a call is allowed one attempt more than asked for
NewCallOneMore(name, maxRetries) ==
    [OperationName |-> name, MaxRetries |-> maxRetries + 1, attempt |-> 1,
     invoked |-> <<>>, slept |-> <<>>, logged |-> <<>>, returned |-> FALSE,
     returnedNull |-> FALSE,
     result |-> [Success |-> FALSE, Result |-> NullObject, Error |-> NullError]]

\* the frame of one call of Invoke-ExchangeOperation
NewCall(name, maxRetries) ==
    [OperationName |-> name, MaxRetries |-> maxRetries, attempt |-> 1,
     invoked |-> <<>>, slept |-> <<>>, logged |-> <<>>, returned |-> FALSE,
     returnedNull |-> FALSE,
     result |-> [Success |-> FALSE, Result |-> NullObject, Error |-> NullError]]

\* mutant: the number of the failed attempt, before $attempt++
BackoffSecondsOfFailed(attempt) == 2 * (attempt - 1)

\* Start-Sleep -Seconds (2 * $attempt), after $attempt++
BackoffSeconds(attempt) == 2 * attempt

\* what the catch block does to the frame for the failed attempt, up to the
\* test of $attempt -eq $MaxRetries
Failed(e) ==
    [e EXCEPT !.invoked = Append(@, FALSE),
              !.logged = Append(@, LogLine(e.OperationName, e.attempt,
                                           ExceptionMessage(e.attempt)))]

\* mutant: the executor gives up one attempt early
Invoke_ExchangeOperationEarly(e, throws, value) ==
    IF ~(e.attempt <= e.MaxRetries)
    THEN [e EXCEPT !.returned = TRUE, !.returnedNull = TRUE,
                   !.result = [Success |-> FALSE, Result |-> NullObject,
                               Error |-> NullError]]
    ELSE IF ~throws
    THEN [e EXCEPT !.invoked = Append(@, TRUE), !.returned = TRUE,
                   !.result = [Success |-> TRUE, Result |-> value,
                               Error |-> NullError]]
    ELSE IF e.attempt + 1 >= e.MaxRetries
    THEN [Failed(e) EXCEPT
                   !.returned = TRUE,
                   !.result = [Success |-> FALSE, Result |-> NullObject,
                               Error |-> ReturnedError(e.OperationName,
                                            ExceptionMessage(e.attempt))]]
    ELSE [Failed(e) EXCEPT
                   !.attempt = @ + 1,
                   !.slept = Append(@, BackoffSeconds(e.attempt + 1))]

\* mutant: the sleep stands before the test of the last attempt
Invoke_ExchangeOperationSleepsFirst(e, throws, value) ==
    IF ~(e.attempt <= e.MaxRetries)
    THEN [e EXCEPT !.returned = TRUE, !.returnedNull = TRUE,
                   !.result = [Success |-> FALSE, Result |-> NullObject,
                               Error |-> NullError]]
    ELSE IF ~throws
    THEN [e EXCEPT !.invoked = Append(@, TRUE), !.returned = TRUE,
                   !.result = [Success |-> TRUE, Result |-> value,
                               Error |-> NullError]]
    ELSE IF e.attempt = e.MaxRetries
    THEN [Failed(e) EXCEPT
                   !.returned = TRUE,
                   !.slept = Append(@, BackoffSeconds(e.attempt + 1)),
                   !.result = [Success |-> FALSE, Result |-> NullObject,
                               Error |-> ReturnedError(e.OperationName,
                                            ExceptionMessage(e.attempt))]]
    ELSE [Failed(e) EXCEPT
                   !.attempt = @ + 1,
                   !.slept = Append(@, BackoffSeconds(e.attempt + 1))]

\* mutant: after the last allowed attempt failed the executor starts over
Invoke_ExchangeOperationStartsOver(e, throws, value) ==
    IF ~(e.attempt <= e.MaxRetries)
    THEN [e EXCEPT !.returned = TRUE, !.returnedNull = TRUE]
    ELSE IF ~throws
    THEN [e EXCEPT !.invoked = Append(@, TRUE), !.returned = TRUE,
                   !.result = [Success |-> TRUE, Result |-> value,
                               Error |-> NullError]]
    ELSE IF e.attempt = e.MaxRetries
    THEN NewCall(e.OperationName, e.MaxRetries)
    ELSE [Failed(e) EXCEPT
                   !.attempt = @ + 1,
                   !.slept = Append(@, BackoffSeconds(e.attempt + 1))]

\* One evaluation of the while condition of Invoke-ExchangeOperation and, when
\* it holds, one pass through the loop body: the operation throws or returns
\* `value`.  `invoked` lists the attempts made (TRUE: returned, FALSE: threw),
\* `slept` the Start-Sleep durations, `logged` the lines written.
Invoke_ExchangeOperation(e, throws, value) ==
    IF ~(e.attempt <= e.MaxRetries)
    THEN \* the function ends without a return statement: the caller gets $null
         [e EXCEPT !.returned = TRUE, !.returnedNull = TRUE,
                   !.result = [Success |-> FALSE, Result |-> NullObject,
                               Error |-> NullError]]
    ELSE IF ~throws
    THEN [e EXCEPT !.invoked = Append(@, TRUE), !.returned = TRUE,
                   !.result = [Success |-> TRUE, Result |-> value,
                               Error |-> NullError]]
    ELSE IF e.attempt = e.MaxRetries
    THEN [Failed(e) EXCEPT
                   !.returned = TRUE,
                   !.result = [Success |-> FALSE, Result |-> NullObject,
                               Error |-> ReturnedError(e.OperationName,
                                            ExceptionMessage(e.attempt))]]
    ELSE [Failed(e) EXCEPT
                   !.attempt = @ + 1,
                   !.slept = Append(@, BackoffSeconds(e.attempt + 1))]

\* -MaxRetries 2 of the two existence checks
LookupRetries == 2

\* -------------------------------------------------------------------- state

VARIABLES
    WhatIf,                 \* param [switch]$WhatIf
    MaxRetries,             \* param [int]$MaxRetries
    recipients,             \* the departments the directory lists (environment)
    directory,              \* the directory's objects (environment)
    pc,                     \* position in the script
    call,                   \* frame of the current / last Invoke-ExchangeOperation
    connected,              \* a session to Exchange Online is open
    depts,                  \* $depts
    position,               \* number of elements foreach has taken from $depts
    deptname,               \* $deptname
    formatValidation,       \* $formatValidation
    components,             \* $components
    groupName,              \* $groupName
    displayName,            \* $displayName
    recipientFilter,        \* $recipientFilter
    existingRecipient,      \* $existingRecipient
    stats,                  \* $stats
    processedDepartments,   \* $processedDepartments
    exitCode,               \* the process exit code, -1 while running
    requests,               \* attempts of each remote call for the current department
    parsed,                 \* positions of the departments Get-DepartmentComponents was called for
    started,                \* the directory when the run started
    finished,               \* frame of the last call of Invoke-ExchangeOperation that returned
    report,                 \* what the summary report printed
    exhausted,              \* calls of Invoke-ExchangeOperation of this run that returned no success
    earlier,                \* the completed earlier runs of the script
    sessions,               \* sessions to Exchange Online this run opened and closed
    faults,                 \* positions of the departments at which a fault outside the remote operations was raised
    zoom,                   \* useState(1): the flowchart's zoom factor, in tenths
    selectedNode,           \* useState<FlowNode | null>(null): id of the selected node
    highlightedPath         \* useState<string[]>([]): ids of the highlighted nodes

params == <<WhatIf, MaxRetries, recipients>>
locals == <<deptname, formatValidation, components, groupName, displayName,
            recipientFilter, existingRecipient>>
vars == <<WhatIf, MaxRetries, recipients, directory, pc, call, connected, depts,
          position, deptname, formatValidation, components, groupName,
          displayName, recipientFilter, existingRecipient, stats,
          processedDepartments, exitCode, requests, parsed, started, finished,
          report, exhausted, earlier, sessions, faults, zoom, selectedNode,
          highlightedPath>>

\* the state of the flowchart view
view == <<zoom, selectedNode, highlightedPath>>

\* no node is selected: null
NoNode == "null"

\* the zoom factor 1, in tenths
InitialZoom == 10

\* lines 45-47 of the component: the view when the page is opened
ViewStart ==
    /\ zoom = InitialZoom
    /\ selectedNode = NoNode
    /\ highlightedPath = <<>>

NoValidation == [IsValid |-> FALSE, Error |-> NullError]
NoRequests == [any |-> 0, typed |-> 0, create |-> 0, update |-> 0]
NewStats ==
    [Created |-> 0, Updated |-> 0, Skipped |-> 0, ValidationErrors |-> 0,
     ProcessingErrors |-> 0, TotalProcessed |-> 0]

\* an element of $processedDepartments; a key the script does not set reads as $null
Outcome(department, status, error, group, display, reason) ==
    [Department |-> department, Status |-> status, Error |-> error,
     GroupName |-> group, DisplayName |-> display, Reason |-> reason]

\* $processedDepartments += @{ ... }
AddOutcome(list, outcome) == Append(list, outcome)

NullReason == "null"
NoCall == NewCall("", 0)
NoReport ==
    [successCount |-> 0, totalErrors |-> 0, successRate |-> 0, errorRate |-> 0,
     errorDepartments |-> <<>>, successDepartments |-> <<>>, printed |-> FALSE]

NoSessions == [opened |-> 0, closed |-> 0]

\* Connect-ExchangeOnline, when it returns
Connect_ExchangeOnline(s) == [s EXCEPT !.opened = @ + 1]

\* mutant: the exit path leaves the session open
Disconnect_ExchangeOnlineMissing(s) == s

\* Disconnect-ExchangeOnline -Confirm:$false
Disconnect_ExchangeOnline(s) == [s EXCEPT !.closed = @ + 1]

\* mutant: the script goes on into the department loop after a fatal error
FatalFallsThrough == "loop"

\* lines 178, 199: exit 1 after a FATAL ERROR
FatalExit == "exit"

\* the script's variables when it starts
ScriptStart ==
    /\ pc = "connect"
    /\ call = NewCall("Exchange Connection", MaxRetries)
    /\ connected = FALSE
    /\ depts = <<>>
    /\ position = 0
    /\ deptname = NullString
    /\ formatValidation = NoValidation
    /\ components = ParseFailure(NullError)
    /\ groupName = NullString
    /\ displayName = NullString
    /\ recipientFilter = NullString
    /\ existingRecipient = NullObject
    /\ stats = NewStats
    /\ processedDepartments = <<>>
    /\ exitCode = -1
    /\ requests = NoRequests
    /\ parsed = {}
    /\ finished = NoCall
    /\ report = NoReport
    /\ exhausted = 0
    /\ sessions = NoSessions
    /\ faults = {}
    /\ ViewStart

Init ==
    /\ WhatIf \in BOOLEAN
    /\ MaxRetries \in 0..MaxRetriesLimit
    /\ recipients \in DepartmentLists
    /\ directory \in InitialDirectories(recipients)
    /\ started = directory
    /\ earlier = <<>>
    /\ ScriptStart

\* ------------------------------------------------------------------ actions

\* the count of the calls that returned no success, after a step of call c
Exhausted(n, c) == IF c.returned /\ ~c.result.Success THEN n + 1 ELSE n

\* lines 171-181: Connect-ExchangeOnline through the retry executor
Connect ==
    /\ pc = "connect"
    /\ \E throws \in BOOLEAN :
        LET c == Invoke_ExchangeOperation(call, throws, NullObject) IN
        IF ~c.returned
        THEN /\ call' = c
             /\ UNCHANGED <<pc, connected, exitCode, finished, exhausted,
                            sessions>>
        ELSE IF ~c.result.Success
        THEN \* FATAL ERROR: exit 1
             /\ call' = c
             /\ finished' = c
             /\ exhausted' = exhausted + 1
             /\ pc' = FatalExit
             /\ exitCode' = 1
             /\ UNCHANGED <<connected, sessions>>
        ELSE /\ call' = NewCall("Get Departments", MaxRetries)
             /\ finished' = c
             /\ connected' = TRUE
             /\ sessions' = Connect_ExchangeOnline(sessions)
             /\ pc' = "getDepartments"
             /\ UNCHANGED <<exitCode, exhausted>>
    /\ UNCHANGED <<params, directory, depts, position, locals, stats,
                   processedDepartments, requests, parsed, started, report,
                   earlier, faults, view>>

\* lines 186-222: the listing through the retry executor, the fatal exit, the
\* exit on an empty listing, the counters
GetDepartments ==
    /\ pc = "getDepartments"
    /\ \E throws \in BOOLEAN :
        LET c == Invoke_ExchangeOperation(call, throws, recipients) IN
        /\ call' = c
        /\ finished' = IF c.returned THEN c ELSE finished
        /\ exhausted' = Exhausted(exhausted, c)
        /\ IF ~c.returned
           THEN UNCHANGED <<pc, connected, exitCode, depts, sessions>>
           ELSE IF ~c.result.Success
           THEN \* FATAL ERROR: Disconnect-ExchangeOnline; exit 1
                /\ connected' = FALSE
                /\ sessions' = Disconnect_ExchangeOnline(sessions)
                /\ pc' = FatalExit
                /\ exitCode' = 1
                /\ UNCHANGED depts
           ELSE IF Len(c.result.Result) = 0
           THEN \* Exiting gracefully: Disconnect-ExchangeOnline; exit 0
                /\ depts' = c.result.Result
                /\ connected' = FALSE
                /\ sessions' = Disconnect_ExchangeOnline(sessions)
                /\ pc' = "exit"
                /\ exitCode' = 0
           ELSE /\ depts' = c.result.Result
                /\ pc' = "loop"
                /\ UNCHANGED <<connected, exitCode, sessions>>
    /\ UNCHANGED <<params, directory, position, locals, stats,
                   processedDepartments, requests, parsed, started, report,
                   earlier, faults, view>>

\* mutant: break instead of continue
BreakLoop == "afterLoop"

\* mutant: no continue, the script goes on with the statement after the branch
ContinueFallsThrough == "parse"

\* lines 243, 256, 272: continue (the next iteration of foreach)
ContinueLoop == "loop"

\* line 229: $stats.TotalProcessed++
CountProcessed(s) == [s EXCEPT !.TotalProcessed = @ + 1]

\* mutant: the failure is counted as a processing error
RecordValidationErrorAsProcessing(s) == [s EXCEPT !.ProcessingErrors = @ + 1]

\* lines 237, 250: $stats.ValidationErrors++ of the validation branch and of
\* the parsing branch
RecordValidationError(s) == [s EXCEPT !.ValidationErrors = @ + 1]

\* lines 227-244: foreach takes the next department; format validation
NextDepartment ==
    /\ pc = "loop"
    /\ position < Len(depts)
    /\ LET name == depts[position + 1]
           validation == Test_DepartmentFormat(name)
       IN  /\ position' = position + 1
           /\ deptname' = name
           /\ formatValidation' = validation
           /\ requests' = NoRequests
           /\ IF ~validation.IsValid
              THEN /\ stats' = RecordValidationError(CountProcessed(stats))
                   /\ processedDepartments' =
                        AddOutcome(processedDepartments,
                               Outcome(name, "ValidationError", validation.Error,
                                       NullString, NullString, NullReason))
                   /\ pc' = ContinueLoop
              ELSE /\ stats' = CountProcessed(stats)
                   /\ pc' = "parse"
                   /\ UNCHANGED processedDepartments
    /\ UNCHANGED <<params, directory, call, connected, depts, components,
                   groupName, displayName, recipientFilter, existingRecipient,
                   exitCode, parsed, started, finished, report, exhausted,
                   earlier, sessions, faults, view>>

\* mutant: the dry-run switch is not consulted
WhatIfGateIgnored(whatIf) == "checkRecipient"

\* line 270: if ($WhatIf) { ...; continue }
WhatIfGate(whatIf) == IF whatIf THEN ContinueLoop ELSE "checkRecipient"

\* lines 246-273: parsing, the group details, the filter, the dry-run gate
ParseDepartment ==
    /\ pc = "parse"
    /\ LET parsedNow == Get_DepartmentComponents(deptname) IN
        /\ components' = parsedNow
        /\ parsed' = parsed \cup {position}
        /\ IF ~parsedNow.Success
           THEN /\ stats' = RecordValidationError(stats)
                /\ processedDepartments' =
                     AddOutcome(processedDepartments,
                            Outcome(deptname, "ParsingError", parsedNow.Error,
                                    NullString, NullString, NullReason))
                /\ pc' = ContinueLoop
                /\ UNCHANGED <<groupName, displayName, recipientFilter, call>>
           ELSE /\ groupName' = GroupName(parsedNow)
                /\ displayName' = DisplayName(parsedNow)
                /\ recipientFilter' =
                     New_RecipientFilter(parsedNow.Number, parsedNow.CountryCode)
                /\ pc' = WhatIfGate(WhatIf)
                /\ call' = IF WhatIfGate(WhatIf) = "checkRecipient"
                           THEN NewCall("Check Existing Recipient", LookupRetries)
                           ELSE call
                /\ UNCHANGED <<stats, processedDepartments>>
    /\ UNCHANGED <<params, directory, connected, depts, position, deptname,
                   formatValidation, existingRecipient, exitCode, requests,
                   started, finished, report, exhausted, earlier, sessions, faults, view>>

\* whether this step of the executor invokes the operation
Attempts(c) == c.attempt <= c.MaxRetries

\* line 283 / 332: if ($existingRecipient) { ... } else { create }
RecipientDecision(existing) == IF Truthy(existing) THEN "checkDDG" ELSE "create"

\* mutant: an existing dynamic group is skipped like any other recipient
GroupDecisionAlwaysSkip(existingDDG) == "skip"

\* mutant: the update branch is taken whatever the typed lookup returned
GroupDecisionAlwaysUpdate(existingDDG) == "update"

\* line 293 / 322: if ($existingDDG) { update } else { skip }
GroupDecision(existingDDG) == IF Truthy(existingDDG) THEN "update" ELSE "skip"

\* lines 277-283, 332-334: the any-object lookup and the branch on its result
CheckExistingRecipient ==
    /\ pc = "checkRecipient"
    /\ \E throws \in BOOLEAN :
        LET c == Invoke_ExchangeOperation(call, throws,
                                          Get_Recipient(directory, groupName))
        IN  /\ requests' = [requests EXCEPT
                                !.any = @ + (IF Attempts(call) THEN 1 ELSE 0)]
            /\ exhausted' = Exhausted(exhausted, c)
            /\ IF ~c.returned
               THEN /\ call' = c
                    /\ UNCHANGED <<pc, existingRecipient, finished>>
               ELSE /\ finished' = c
                    /\ existingRecipient' = c.result.Result
                    /\ pc' = RecipientDecision(c.result.Result)
                    /\ call' = IF RecipientDecision(c.result.Result) = "checkDDG"
                               THEN NewCall("Check Existing DDG", LookupRetries)
                               ELSE NewCall("Create DDG", MaxRetries)
    /\ UNCHANGED <<params, directory, connected, depts, position, deptname,
                   formatValidation, components, groupName, displayName,
                   recipientFilter, stats, processedDepartments, exitCode,
                   parsed, started, report, earlier, sessions, faults, view>>

\* lines 323-330: the name is held by another kind of recipient
RecordSkipped(s) == [s EXCEPT !.Skipped = @ + 1]

\* lines 287-293, 322-331: the typed lookup and the branch on its result
CheckExistingDDG ==
    /\ pc = "checkDDG"
    /\ \E throws \in BOOLEAN :
        LET c == Invoke_ExchangeOperation(call, throws,
                    Get_DynamicDistributionGroup(directory, groupName))
        IN  /\ requests' = [requests EXCEPT
                                !.typed = @ + (IF Attempts(call) THEN 1 ELSE 0)]
            /\ exhausted' = Exhausted(exhausted, c)
            /\ IF ~c.returned
               THEN /\ call' = c
                    /\ UNCHANGED <<pc, finished, stats, processedDepartments>>
               ELSE IF GroupDecision(c.result.Result) = "update"
               THEN /\ finished' = c
                    /\ call' = NewCall("Update DDG", MaxRetries)
                    /\ pc' = "update"
                    /\ UNCHANGED <<stats, processedDepartments>>
               ELSE /\ finished' = c
                    /\ call' = c
                    /\ stats' = RecordSkipped(stats)
                    /\ processedDepartments' =
                         AddOutcome(processedDepartments,
                                Outcome(deptname, "Skipped", NullError, NullString,
                                        NullString, existingRecipient.Kind))
                    /\ pc' = "loop"
    /\ UNCHANGED <<params, directory, connected, depts, position, locals,
                   exitCode, parsed, started, report, earlier, sessions, faults, view>>

\* mutant: the counter does not look at the result
RecordUpdateAlways(s, result) == [s EXCEPT !.Updated = @ + 1]

\* lines 304-321: the result of the update call
RecordUpdate(s, result) ==
    IF result.Success
    THEN [s EXCEPT !.Updated = @ + 1]
    ELSE [s EXCEPT !.ProcessingErrors = @ + 1]

\* mutant: the department is recorded as skipped although the update was issued
UpdateOutcomeSkipped(result, department, group, display) ==
    Outcome(department, "Skipped", NullError, NullString, NullString, DynamicGroup)

\* lines 307-320: the outcome record of the update branch
UpdateOutcome(result, department, group, display) ==
    IF result.Success
    THEN Outcome(department, "Updated", NullError, group, display, NullReason)
    ELSE Outcome(department, "UpdateError", result.Error, NullString, NullString,
                 NullReason)

\* mutant: the update renames the group and leaves its filter alone
UpdateArgumentsNoFilter(display, filter) == <<display, <<"old filter">>>>

\* the -DisplayName and -RecipientFilter arguments of lines 298-301
UpdateArguments(display, filter) == <<display, filter>>

\* lines 297-321: Set-DynamicDistributionGroup through the retry executor
UpdateDDG ==
    /\ pc = "update"
    /\ \E fails \in BOOLEAN :
        LET throws == fails \/ ~Truthy(Get_DynamicDistributionGroup(directory, groupName))
            c == Invoke_ExchangeOperation(call, throws, NullObject)
            args == UpdateArguments(displayName, recipientFilter)
        IN  /\ requests' = [requests EXCEPT
                                !.update = @ + (IF Attempts(call) THEN 1 ELSE 0)]
            /\ exhausted' = Exhausted(exhausted, c)
            /\ directory' = IF Attempts(call) /\ ~throws
                            THEN Set_DynamicDistributionGroup(directory, groupName,
                                                              args[1], args[2])
                            ELSE directory
            /\ call' = c
            /\ IF ~c.returned
               THEN UNCHANGED <<pc, finished, stats, processedDepartments>>
               ELSE /\ finished' = c
                    /\ stats' = RecordUpdate(stats, c.result)
                    /\ processedDepartments' =
                         AddOutcome(processedDepartments,
                                UpdateOutcome(c.result, deptname, groupName,
                                              displayName))
                    /\ pc' = "loop"
    /\ UNCHANGED <<params, connected, depts, position, locals, exitCode, parsed,
                   started, report, earlier, sessions, faults, view>>

\* lines 345-362: the result of the create call
RecordCreate(s, result) ==
    IF result.Success
    THEN [s EXCEPT !.Created = @ + 1]
    ELSE [s EXCEPT !.ProcessingErrors = @ + 1]

CreateOutcome(result, department, group, display) ==
    IF result.Success
    THEN Outcome(department, "Created", NullError, group, display, NullReason)
    ELSE Outcome(department, "CreateError", result.Error, NullString, NullString,
                 NullReason)

\* mutant: -DisplayName $groupName
CreateArgumentsNameTwice(group, display, filter) == <<group, group, filter>>

\* the -Name, -DisplayName and -RecipientFilter arguments of lines 337-342
CreateArguments(group, display, filter) == <<group, display, filter>>

\* lines 336-362: New-DynamicDistributionGroup through the retry executor
CreateDDG ==
    /\ pc = "create"
    /\ \E fails \in BOOLEAN :
        LET args == CreateArguments(groupName, displayName, recipientFilter)
            throws == fails \/ NameInUse(directory, args[1])
            c == Invoke_ExchangeOperation(call, throws, NullObject)
        IN  /\ requests' = [requests EXCEPT
                                !.create = @ + (IF Attempts(call) THEN 1 ELSE 0)]
            /\ exhausted' = Exhausted(exhausted, c)
            /\ directory' = IF Attempts(call) /\ ~throws
                            THEN New_DynamicDistributionGroup(directory, args[1],
                                                              args[2], args[3])
                            ELSE directory
            /\ call' = c
            /\ IF ~c.returned
               THEN UNCHANGED <<pc, finished, stats, processedDepartments>>
               ELSE /\ finished' = c
                    /\ stats' = RecordCreate(stats, c.result)
                    /\ processedDepartments' =
                         AddOutcome(processedDepartments,
                                CreateOutcome(c.result, deptname, groupName,
                                              displayName))
                    /\ pc' = "loop"
    /\ UNCHANGED <<params, connected, depts, position, locals, exitCode, parsed,
                   started, report, earlier, sessions, faults, view>>

\* mutant: the branch of no processed department yields 100 %
RatePercentOfNone(count, total) ==
    IF total > 0 THEN (20000 * count + total) \div (2 * total) ELSE 10000

\* mutant: the rate is cut off after the second decimal
RatePercentTruncated(count, total) ==
    IF total > 0 THEN (10000 * count) \div total ELSE 0

\* [math]::Round((count / total) * 100, 2), in hundredths of a percent.  A
\* midpoint (where Round goes to the even neighbour) needs a total that is a
\* multiple of 32, so rounding half up is the same for the totals reached here.
RatePercent(count, total) ==
    IF total > 0 THEN (20000 * count + total) \div (2 * total) ELSE 0

\* mutant: -eq "Error" in place of -like "*Error*"
IsErrorStatusExact(status) == status = "Error"

\* $_.Status -like "*Error*"
IsErrorStatus(status) ==
    status \in {"ValidationError", "ParsingError", "UpdateError", "CreateError",
                "UnexpectedError"}

\* mutant: a single error is tolerated
ExitCodeTolerant(totalErrors) == IF totalErrors > 1 THEN 1 ELSE 0

\* line 437: $exitCode = if ($totalErrors -eq 0) { 0 } else { 1 }
ExitCode(totalErrors) == IF totalErrors = 0 THEN 0 ELSE 1

\* lines 376-438: the summary report, the disconnect, the exit code
SummaryReport ==
    /\ \/ pc = "loop" /\ position = Len(depts)
       \/ pc = "afterLoop"
    /\ LET successCount == stats.Created + stats.Updated
           totalErrors == stats.ValidationErrors + stats.ProcessingErrors
       IN  /\ report' =
                [successCount |-> successCount,
                 totalErrors |-> totalErrors,
                 successRate |-> RatePercent(successCount, stats.TotalProcessed),
                 errorRate |-> RatePercent(totalErrors, stats.TotalProcessed),
                 errorDepartments |->
                    IF totalErrors > 0
                    THEN SelectSeq(processedDepartments,
                                   LAMBDA o : IsErrorStatus(o.Status))
                    ELSE <<>>,
                 successDepartments |->
                    IF successCount > 0
                    THEN SelectSeq(processedDepartments,
                                   LAMBDA o : o.Status \in {"Created", "Updated"})
                    ELSE <<>>,
                 printed |-> TRUE]
           /\ exitCode' = ExitCode(totalErrors)
    /\ connected' = FALSE
    /\ sessions' = Disconnect_ExchangeOnline(sessions)
    /\ pc' = "exit"
    /\ UNCHANGED <<params, directory, call, depts, position, locals, stats,
                   processedDepartments, requests, parsed, started, finished,
                   exhausted, earlier, faults, view>>

\* ------------------------------------------------------------ specifications

\* one run of the script
Next ==
    \/ Connect
    \/ GetDepartments
    \/ NextDepartment
    \/ ParseDepartment
    \/ CheckExistingRecipient
    \/ CheckExistingDDG
    \/ UpdateDDG
    \/ CreateDDG
    \/ SummaryReport

Spec == Init /\ [][Next]_vars

\* $_.Exception.Message of a fault that no remote operation raised
UnexpectedMessage == "unexpected exception"

\* lines 365-373: a fault raised inside the try block, outside the remote
\* operations (which Invoke-ExchangeOperation catches), lands in the catch
\* block of the department
FaultInTry ==
    /\ pc \in {"checkRecipient", "checkDDG", "update", "create"}
    /\ faults' = faults \cup {position}
    /\ stats' = [stats EXCEPT !.ProcessingErrors = @ + 1]
    /\ processedDepartments' =
         AddOutcome(processedDepartments,
                    Outcome(deptname, "UnexpectedError", UnexpectedMessage,
                            NullString, NullString, NullReason))
    /\ pc' = "loop"
    /\ UNCHANGED <<params, directory, call, connected, depts, position, locals,
                   exitCode, requests, parsed, started, finished, report,
                   exhausted, earlier, sessions, view>>

\* lines 246-273 stand before the try block: a fault raised while the filter
\* is built (line 266) is caught by nothing.  A script-terminating fault ends
\* the script there; a statement-terminating fault abandons the assignment,
\* $recipientFilter keeps its value and the script goes on with line 268.
FaultBeforeTry ==
    /\ pc = "parse"
    /\ LET parsedNow == Get_DepartmentComponents(deptname) IN
        /\ parsedNow.Success
        /\ components' = parsedNow
        /\ parsed' = parsed \cup {position}
        /\ groupName' = GroupName(parsedNow)
        /\ displayName' = DisplayName(parsedNow)
        /\ faults' = faults \cup {position}
        /\ \E terminating \in BOOLEAN :
            IF terminating
            THEN /\ pc' = "exit"
                 /\ exitCode' = 1
                 /\ UNCHANGED call
            ELSE /\ pc' = WhatIfGate(WhatIf)
                 /\ call' = IF WhatIfGate(WhatIf) = "checkRecipient"
                            THEN NewCall("Check Existing Recipient", LookupRetries)
                            ELSE call
                 /\ UNCHANGED exitCode
    /\ UNCHANGED <<params, directory, connected, depts, position, deptname,
                   formatValidation, recipientFilter, existingRecipient, stats,
                   processedDepartments, requests, started, finished, report,
                   exhausted, earlier, sessions, view>>

\* one run of the script in which faults are raised outside the remote
\* operations as well
NextFaults == Next \/ FaultInTry \/ FaultBeforeTry

SpecFaults == Init /\ [][NextFaults]_vars

\* The script is started again on the directory the first run left, with the
\* same parameters and the same listing (no change from outside in between).
SecondRun ==
    /\ pc = "exit"
    /\ earlier = <<>>
    /\ earlier' = <<[processedDepartments |-> processedDepartments,
                     started |-> started, exitCode |-> exitCode,
                     stats |-> stats, report |-> report,
                     exhausted |-> exhausted]>>
    /\ UNCHANGED <<params, directory>>
    /\ started' = directory
    /\ pc' = "connect"
    /\ call' = NewCall("Exchange Connection", MaxRetries)
    /\ connected' = FALSE
    /\ depts' = <<>>
    /\ position' = 0
    /\ deptname' = NullString
    /\ formatValidation' = NoValidation
    /\ components' = ParseFailure(NullError)
    /\ groupName' = NullString
    /\ displayName' = NullString
    /\ recipientFilter' = NullString
    /\ existingRecipient' = NullObject
    /\ stats' = NewStats
    /\ processedDepartments' = <<>>
    /\ exitCode' = -1
    /\ requests' = NoRequests
    /\ parsed' = {}
    /\ finished' = NoCall
    /\ report' = NoReport
    /\ exhausted' = 0
    /\ sessions' = NoSessions
    /\ faults' = {}
    /\ UNCHANGED view

NextTwice == Next \/ SecondRun

InitTwice == Init /\ Len(recipients) <= MaxDeptsTwice

SpecTwice == InitTwice /\ [][NextTwice]_vars

\* The loop of a dry run over a listing of one generated department string:
\* the state after a connection and a listing that succeeded at once.
DefaultMaxRetries == 3

InitStrings ==
    /\ WhatIf = TRUE
    /\ MaxRetries = DefaultMaxRetries
    /\ \E s \in GeneratedStrings : recipients = <<s>>
    /\ directory = {}
    /\ started = directory
    /\ earlier = <<>>
    /\ pc = "loop"
    /\ call = Invoke_ExchangeOperation(NewCall("Get Departments", MaxRetries),
                                       FALSE, recipients)
    /\ finished = call
    /\ connected = TRUE
    /\ depts = recipients
    /\ position = 0
    /\ deptname = NullString
    /\ formatValidation = NoValidation
    /\ components = ParseFailure(NullError)
    /\ groupName = NullString
    /\ displayName = NullString
    /\ recipientFilter = NullString
    /\ existingRecipient = NullObject
    /\ stats = NewStats
    /\ processedDepartments = <<>>
    /\ exitCode = -1
    /\ requests = NoRequests
    /\ parsed = {}
    /\ report = NoReport
    /\ exhausted = 0
    /\ sessions = Connect_ExchangeOnline(NoSessions)
    /\ faults = {}
    /\ ViewStart

NextStrings ==
    \/ NextDepartment
    \/ ParseDepartment
    \/ SummaryReport

SpecStrings == InitStrings /\ [][NextStrings]_vars

\* The reporting scenario: a listing whose first two strings have no
\* whitespace around the separator, whose next two departments have a dynamic
\* group of an older definition, and whose other departments are new.
ScenarioNumber(i) == <<"1", "0", "0", ToString(i \div 10), ToString(i % 10)>>

ScenarioDept(i) ==
    IF i <= 2
    THEN ScenarioNumber(i) \o <<" ","D","e","p","t","-","U","S","A">>
    ELSE ScenarioNumber(i) \o <<" ","D","e","p","t"," ","-"," ","U","S","A">>

ScenarioListings ==
    {[i \in 1..n |-> ScenarioDept(i)] : n \in 0..MaxScenarioDepts}

ScenarioDirectory ==
    {StaleGroup(ScenarioNumber(i) \o <<"U","S","A">>) : i \in {3, 4}}

InitReport ==
    /\ WhatIf = FALSE
    /\ MaxRetries = DefaultMaxRetries
    /\ recipients \in ScenarioListings
    /\ directory = ScenarioDirectory
    /\ started = directory
    /\ earlier = <<>>
    /\ ScriptStart

SpecReport == InitReport /\ [][Next]_vars

\* The listing scenario: up to MaxListingDepts departments, each of them
\* malformed (no whitespace around the separator), new, holder of a dynamic
\* group of an older definition, or in conflict with a mailbox of its name.
MaxListingDepts == 3

ListingKinds == {"bad", "new", "stale", "taken"}

ListingNumber(i) == <<"2", "0", "0", "0", ToString(i)>>

ListingDept(i, kind) ==
    IF kind = "bad"
    THEN ListingNumber(i) \o <<" ","D","e","p","t","-","U","S","A">>
    ELSE ListingNumber(i) \o <<" ","D","e","p","t"," ","-"," ","U","S","A">>

ListingDirectory(kinds) ==
    {StaleGroup(ListingNumber(i) \o <<"U","S","A">>) :
        i \in {j \in DOMAIN kinds : kinds[j] = "stale"}}
    \cup {Mailbox(ListingNumber(i) \o <<"U","S","A">>) :
        i \in {j \in DOMAIN kinds : kinds[j] = "taken"}}

InitListings ==
    /\ WhatIf = FALSE
    /\ MaxRetries = DefaultMaxRetries
    /\ \E n \in 0..MaxListingDepts : \E kinds \in [1..n -> ListingKinds] :
            /\ recipients = [i \in 1..n |-> ListingDept(i, kinds[i])]
            /\ directory = ListingDirectory(kinds)
    /\ started = directory
    /\ earlier = <<>>
    /\ ScriptStart

SpecListings == InitListings /\ [][Next]_vars

\* The rate computation on its own: the report statement (lines 390-393)
\* applied to counters drawn from every split of up to MaxProcessed processed
\* departments into the five buckets and the departments of no bucket, the
\* split of no department at all included.
MaxProcessed == 4

CounterSplits ==
    {s \in [Created : 0..MaxProcessed, Updated : 0..MaxProcessed,
            Skipped : 0..MaxProcessed, ValidationErrors : 0..MaxProcessed,
            ProcessingErrors : 0..MaxProcessed, TotalProcessed : 0..MaxProcessed] :
        s.Created + s.Updated + s.Skipped + s.ValidationErrors
            + s.ProcessingErrors <= s.TotalProcessed}

InitRates ==
    /\ WhatIf = FALSE
    /\ MaxRetries = DefaultMaxRetries
    /\ stats \in CounterSplits
    /\ recipients = [i \in 1..stats.TotalProcessed |-> ScenarioDept(i)]
    /\ directory = {}
    /\ started = directory
    /\ earlier = <<>>
    /\ pc = "loop"
    /\ call = Invoke_ExchangeOperation(NewCall("Get Departments", MaxRetries),
                                       FALSE, recipients)
    /\ finished = call
    /\ connected = TRUE
    /\ depts = recipients
    /\ position = Len(depts)
    /\ deptname = NullString
    /\ formatValidation = NoValidation
    /\ components = ParseFailure(NullError)
    /\ groupName = NullString
    /\ displayName = NullString
    /\ recipientFilter = NullString
    /\ existingRecipient = NullObject
    /\ processedDepartments = <<>>
    /\ exitCode = -1
    /\ requests = NoRequests
    /\ parsed = {}
    /\ report = NoReport
    /\ exhausted = 0
    /\ sessions = Connect_ExchangeOnline(NoSessions)
    /\ faults = {}
    /\ ViewStart

SpecRates == InitRates /\ [][SummaryReport]_vars

\* The run under its scheduling: the script is one sequential process, so a
\* step that can be taken is taken (each remote call returns or throws).
\* Listings of up to MaxLiveDepts departments of the listing scenario, every
\* -MaxRetries from 1 on, both modes.
MaxLiveDepts == 2

InitLive ==
    /\ WhatIf \in BOOLEAN
    /\ MaxRetries \in 1..MaxRetriesLimit
    /\ \E n \in 0..MaxLiveDepts : \E kinds \in [1..n -> ListingKinds] :
            /\ recipients = [i \in 1..n |-> ListingDept(i, kinds[i])]
            /\ directory = ListingDirectory(kinds)
    /\ started = directory
    /\ earlier = <<>>
    /\ ScriptStart

SpecLive == InitLive /\ [][Next]_vars /\ WF_vars(Next)

\* The run with any -MaxRetries an [int] parameter without validation can
\* carry, zero and the negative values included, over the listing scenario.
InitAnyRetries ==
    /\ WhatIf \in BOOLEAN
    /\ MaxRetries \in (0 - MaxRetriesLimit)..MaxRetriesLimit
    /\ \E n \in 0..MaxLiveDepts : \E kinds \in [1..n -> ListingKinds] :
            /\ recipients = [i \in 1..n |-> ListingDept(i, kinds[i])]
            /\ directory = ListingDirectory(kinds)
    /\ started = directory
    /\ earlier = <<>>
    /\ ScriptStart

SpecAnyRetries == InitAnyRetries /\ [][Next]_vars

\* ---------------------------------------------------------------- flowchart

\* InteractiveFlowchart.tsx, lines 51-609: the nodes of the documented
\* flowchart with their connections (id, type, connections of each FlowNode)
nodes ==
  <<
    [id |-> "start", type |-> "start",
     connections |-> <<"params">>],
    [id |-> "params", type |-> "process",
     connections |-> <<"logging">>],
    [id |-> "logging", type |-> "process",
     connections |-> <<"functions">>],
    [id |-> "functions", type |-> "function",
     connections |-> <<"connect">>],
    [id |-> "connect", type |-> "process",
     connections |-> <<"connect_check">>],
    [id |-> "connect_check", type |-> "decision",
     connections |-> <<"get_depts", "connect_error">>],
    [id |-> "connect_error", type |-> "error",
     connections |-> <<"end_error">>],
    [id |-> "get_depts", type |-> "process",
     connections |-> <<"depts_check">>],
    [id |-> "depts_check", type |-> "decision",
     connections |-> <<"init_stats", "no_depts">>],
    [id |-> "no_depts", type |-> "process",
     connections |-> <<"disconnect">>],
    [id |-> "init_stats", type |-> "process",
     connections |-> <<"dept_loop">>],
    [id |-> "dept_loop", type |-> "process",
     connections |-> <<"validate_format">>],
    [id |-> "validate_format", type |-> "function",
     connections |-> <<"format_check">>],
    [id |-> "format_check", type |-> "decision",
     connections |-> <<"parse_components", "format_error">>],
    [id |-> "format_error", type |-> "error",
     connections |-> <<"next_dept">>],
    [id |-> "parse_components", type |-> "function",
     connections |-> <<"create_filter">>],
    [id |-> "create_filter", type |-> "function",
     connections |-> <<"whatif_check">>],
    [id |-> "whatif_check", type |-> "decision",
     connections |-> <<"whatif_output", "check_existing">>],
    [id |-> "whatif_output", type |-> "process",
     connections |-> <<"next_dept">>],
    [id |-> "check_existing", type |-> "process",
     connections |-> <<"existing_check">>],
    [id |-> "existing_check", type |-> "decision",
     connections |-> <<"check_ddg_type", "create_new">>],
    [id |-> "check_ddg_type", type |-> "process",
     connections |-> <<"ddg_type_check">>],
    [id |-> "ddg_type_check", type |-> "decision",
     connections |-> <<"update_ddg", "skip_conflict">>],
    [id |-> "update_ddg", type |-> "process",
     connections |-> <<"update_success">>],
    [id |-> "update_success", type |-> "success",
     connections |-> <<"next_dept">>],
    [id |-> "skip_conflict", type |-> "process",
     connections |-> <<"next_dept">>],
    [id |-> "create_new", type |-> "process",
     connections |-> <<"create_success">>],
    [id |-> "create_success", type |-> "success",
     connections |-> <<"next_dept">>],
    [id |-> "next_dept", type |-> "process",
     connections |-> <<"loop_check">>],
    [id |-> "loop_check", type |-> "decision",
     connections |-> <<"validate_format", "generate_report">>],
    [id |-> "generate_report", type |-> "process",
     connections |-> <<"disconnect">>],
    [id |-> "disconnect", type |-> "process",
     connections |-> <<"end_success">>],
    [id |-> "end_success", type |-> "end",
     connections |-> <<>>],
    [id |-> "end_error", type |-> "end",
     connections |-> <<>>]
  >>

NodeIds == {nodes[i].id : i \in DOMAIN nodes}

\* the FlowNode of an id
NodeOf(id) == nodes[CHOOSE i \in DOMAIN nodes : nodes[i].id = id]

\* the flowchart draws an arrow from a to b
Connected(a, b) ==
    \E k \in DOMAIN NodeOf(a).connections : NodeOf(a).connections[k] = b

\* the end node whose code is the exit statement of an exit code
EndNode(code) == IF code = 0 THEN "end_success" ELSE "end_error"

\* the documented steps a retry executor's call stands at
CallNode(p) ==
    CASE p = "connect" -> "connect"
      [] p = "getDepartments" -> "get_depts"
      [] p = "checkRecipient" -> "check_existing"
      [] p = "checkDDG" -> "check_ddg_type"
      [] p = "update" -> "update_ddg"
      [] p = "create" -> "create_new"

\* The documented steps one step of the script passes, from the step it
\* stands at to the step it stands at afterwards, each named by the node
\* whose `code` is the statement executed.
Trail ==
    CASE pc \in {"connect", "getDepartments", "checkRecipient", "checkDDG",
                 "update", "create"} /\ pc' = pc ->
            \* another attempt of the same call
            <<CallNode(pc)>>
      [] pc = "connect" /\ pc' = "getDepartments" ->
            <<"connect", "connect_check", "get_depts">>
      [] pc = "connect" /\ pc' = "exit" ->
            <<"connect", "connect_check", "connect_error", EndNode(exitCode')>>
      [] pc = "getDepartments" /\ pc' = "loop" ->
            <<"get_depts", "depts_check", "init_stats", "dept_loop">>
      [] pc = "getDepartments" /\ pc' = "exit" /\ finished'.result.Success ->
            <<"get_depts", "depts_check", "no_depts", "disconnect",
              EndNode(exitCode')>>
      [] pc = "getDepartments" /\ pc' = "exit" /\ ~finished'.result.Success ->
            \* lines 196-200: FATAL ERROR, Disconnect-ExchangeOnline, exit 1
            <<"get_depts", "disconnect", EndNode(exitCode')>>
      [] pc = "loop" /\ pc' = "exit" ->
            <<"next_dept", "loop_check", "generate_report", "disconnect",
              EndNode(exitCode')>>
      [] pc = "loop" /\ pc' # "exit" ->
            (IF position = 0 THEN <<"dept_loop">> ELSE <<"next_dept", "loop_check">>)
            \o <<"validate_format", "format_check">>
            \o (IF formatValidation'.IsValid
                THEN <<"parse_components">>
                ELSE <<"format_error", "next_dept">>)
      [] pc = "parse" /\ ~components'.Success ->
            \* lines 248-257: PARSING ERROR, continue
            <<"parse_components", "next_dept">>
      [] pc = "parse" /\ components'.Success ->
            <<"parse_components", "create_filter", "whatif_check">>
            \o (IF pc' = "checkRecipient"
                THEN <<"check_existing">>
                ELSE <<"whatif_output", "next_dept">>)
      [] pc = "checkRecipient" /\ pc' # pc ->
            <<"check_existing", "existing_check", CallNode(pc')>>
      [] pc = "checkDDG" /\ pc' = "update" ->
            <<"check_ddg_type", "ddg_type_check", "update_ddg">>
      [] pc = "checkDDG" /\ pc' = "loop" ->
            <<"check_ddg_type", "ddg_type_check", "skip_conflict", "next_dept">>
      [] pc = "update" /\ pc' # pc ->
            IF finished'.result.Success
            THEN <<"update_ddg", "update_success", "next_dept">>
            ELSE \* lines 313-320: ERROR: Failed to update DDG
                 <<"update_ddg", "next_dept">>
      [] pc = "create" /\ pc' # pc ->
            IF finished'.result.Success
            THEN <<"create_new", "create_success", "next_dept">>
            ELSE \* lines 354-361: ERROR: Failed to create DDG
                 <<"create_new", "next_dept">>
      [] OTHER -> <<>>

\* the variables of the script, which the flowchart view leaves alone
script == <<WhatIf, MaxRetries, recipients, directory, pc, call, connected, depts,
            position, locals, stats, processedDepartments, exitCode, requests,
            parsed, started, finished, report, exhausted, earlier, sessions,
            faults>>

\* the limits and the step of the zoom factor, in tenths: 3, 0.5 and 0.2
MaxZoom == 30
MinZoom == 5
ZoomStep == 2

\* Math.min, Math.max
Min(a, b) == IF a < b THEN a ELSE b
Max(a, b) == IF a > b THEN a ELSE b

\* line 641: const path = [node.id, ...node.connections]
PathOf(node) == <<node.id>> \o node.connections

\* mutant: zooming in has no limit
ZoomedInFreely(prev) == prev + ZoomStep

\* line 645: prev => Math.min(prev + 0.2, 3)
ZoomedIn(prev) == Min(prev + ZoomStep, MaxZoom)

\* line 646: prev => Math.max(prev - 0.2, 0.5)
ZoomedOut(prev) == Max(prev - ZoomStep, MinZoom)

\* lines 638-643: a click on a node
handleNodeClick(node) ==
    /\ selectedNode' = node.id
    /\ highlightedPath' = PathOf(node)
    /\ UNCHANGED <<zoom, script>>

\* line 645
handleZoomIn ==
    /\ zoom' = ZoomedIn(zoom)
    /\ UNCHANGED <<selectedNode, highlightedPath, script>>

\* line 646
handleZoomOut ==
    /\ zoom' = ZoomedOut(zoom)
    /\ UNCHANGED <<selectedNode, highlightedPath, script>>

\* lines 647-651
handleReset ==
    /\ zoom' = InitialZoom
    /\ highlightedPath' = <<>>
    /\ selectedNode' = NoNode
    /\ UNCHANGED script

\* the flowchart page: the view over the documentation of a script at rest
InitView ==
    /\ WhatIf = FALSE
    /\ MaxRetries = DefaultMaxRetries
    /\ recipients = <<>>
    /\ directory = {}
    /\ started = directory
    /\ earlier = <<>>
    /\ ScriptStart

NextView ==
    \/ \E i \in DOMAIN nodes : handleNodeClick(nodes[i])
    \/ handleZoomIn
    \/ handleZoomOut
    \/ handleReset

SpecView == InitView /\ [][NextView]_vars

\* ------------------------------------------------------------------ claims

Last(s) == s[Len(s)]

\* The current department passed validation and parsing in a run that is not
\* a dry run: the script's variables describe its reconciliation.
Reconciling == position \in parsed /\ components.Success /\ ~WhatIf

\* the reconciliation of the current department has ended
Reconciled == Reconciling /\ pc \in {"loop", "exit"}

\* the run went through the department loop and printed its report
LoopEnded == pc = "exit" /\ report.printed

\* a department string passes Validate and Parse
Parses(s) == Test_DepartmentFormat(s).IsValid /\ Get_DepartmentComponents(s).Success

\* The grammar NNNNN<ws><text><ws>-<ws>CCC as the specification words it:
\* 3 upper-case letters, anchored at both ends of the string.
GrammarMatch(s) == PatternMatch(s, UpperLetters, FALSE)

\* the free text of a string of the grammar, without the whitespace around it
LastDash(s) == CHOOSE i \in 1..Len(s) : s[i] = "-" /\ \A j \in (i + 1)..Len(s) : s[j] # "-"
GrammarText(s) == Trim(SubSeq(s, 6, LastDash(s) - 1))
GrammarNumber(s) == SubSeq(s, 1, 5)
GrammarCode(s) == SubSeq(s, Len(s) - 2, Len(s))

\* C1: no failure of a department aborts the run: a run that entered the
\* department loop leaves it only through the summary report, and by then
\* every department of the listing was taken and counted, so TotalProcessed
\* is the number of departments listed.
PartialFailureIsolation ==
    (pc = "exit" /\ Len(depts) > 0) =>
        /\ report.printed
        /\ position = Len(depts)
        /\ stats.TotalProcessed = Len(depts)

\* a run of two departments ended after a validation error and a remote error
PartialFailureWitness ==
    /\ LoopEnded
    /\ Len(depts) = 2
    /\ stats.ValidationErrors = 1
    /\ stats.ProcessingErrors = 1
    /\ processedDepartments[1].Status = "ValidationError"

\* the name of the current department is held by an object that is no dynamic group
HeldByOther ==
    \E o \in directory : o.Name = groupName /\ o.Kind # DynamicGroup

\* C2: whenever an object that is not a dynamic group bears the group name,
\* reconciling the department issues no create and no update call, records
\* Skipped and leaves the object as it was, in every execution (also when a
\* lookup fails on all its attempts).
SkipBehaviour ==
    (Reconciling /\ HeldByOther) =>
        /\ requests.create = 0
        /\ requests.update = 0
        /\ Get_Recipient(directory, groupName) = Get_Recipient(started, groupName)
        /\ Reconciled => Last(processedDepartments).Status = "Skipped"

\* the department at position i of the listing, alone with its group name
\* in the listing, valid, and with the name free when the first run started
FreshDepartment(i) ==
    /\ Parses(depts[i])
    /\ LET n == GroupName(Get_DepartmentComponents(depts[i])) IN
        /\ ~NameInUse(earlier[1].started, n)
        /\ \A j \in 1..Len(depts) :
                (j # i /\ Parses(depts[j])) =>
                    GroupName(Get_DepartmentComponents(depts[j])) # n

\* two runs in sequence, none of them a dry run, went through the loop
TwoRunsEnded ==
    /\ earlier # <<>>
    /\ earlier[1].report.printed
    /\ LoopEnded
    /\ ~WhatIf

CreatedRecords ==
    {<<r, i>> \in ({1} \X (1..Len(processedDepartments))) :
        processedDepartments[i].Status = "Created"}
    \cup (IF earlier = <<>> THEN {}
          ELSE {<<r, i>> \in ({0} \X (1..Len(earlier[1].processedDepartments))) :
                    earlier[1].processedDepartments[i].Status = "Created"})

CreatedGroup(ri) ==
    IF ri[1] = 1 THEN processedDepartments[ri[2]].GroupName
    ELSE earlier[1].processedDepartments[ri[2]].GroupName

Convergence ==
    (LoopEnded /\ ~WhatIf /\ exhausted = 0) =>
        \A i \in 1..Len(depts) :
            LET c == Get_DepartmentComponents(depts[i])
                named == {o \in directory : o.Name = GroupName(c)}
            IN  (/\ Parses(depts[i])
                 /\ ~\E o \in started : o.Name = GroupName(c) /\ o.Kind # DynamicGroup)
                =>  /\ Cardinality(named) = 1
                    /\ \A o \in named :
                        /\ o.Kind = DynamicGroup
                        /\ o.RecipientFilter =
                               New_RecipientFilter(c.Number, c.CountryCode)

\* a run without a failed call ended, one group created and one group with an
\* older filter updated
ConvergenceWitness ==
    /\ LoopEnded
    /\ ~WhatIf
    /\ exhausted = 0
    /\ stats.Created = 1
    /\ stats.Updated = 1
    /\ \E o \in started : o.Kind = DynamicGroup

\* C5: for every string of the grammar Parse succeeds, the group name is the
\* number followed by the country code and the display name is the free text
\* followed by " - " and the country code.
ParseRoundTrip ==
    (position >= 1 /\ pc # "parse" /\ GrammarMatch(deptname)) =>
        /\ position \in parsed
        /\ components.Success
        /\ groupName = GrammarNumber(deptname) \o GrammarCode(deptname)
        /\ displayName =
               GrammarText(deptname) \o <<" ", "-", " ">> \o GrammarCode(deptname)

\* C6: for a valid department with dry-run off, a lookup that finds no object
\* of the group name leads to the create call; a create call that succeeds
\* has created the group under the derived name, display name and filter, is
\* recorded as Created with no update call, and every Created record counts
\* once in the Created counter.
CreateDecision ==
    /\ (Reconciling /\ finished.OperationName = "Check Existing Recipient"
            /\ ~Truthy(finished.result.Result))
        => (pc = "create" /\ requests.update = 0)
    /\ (Reconciled /\ finished.OperationName = "Create DDG" /\ finished.result.Success)
        =>  /\ Last(processedDepartments) =
                   Outcome(deptname, "Created", NullError,
                           GroupName(components), DisplayName(components), NullReason)
            /\ requests.create >= 1
            /\ requests.update = 0
            /\ [Name |-> GroupName(components), Kind |-> DynamicGroup,
                DisplayName |-> DisplayName(components),
                RecipientFilter |->
                    New_RecipientFilter(components.Number, components.CountryCode)]
                    \in directory
    /\ stats.Created =
           Cardinality({i \in 1..Len(processedDepartments) :
                            processedDepartments[i].Status = "Created"})

\* the lookup found nothing at its first attempt and the create call succeeded
CreateDecisionWitness ==
    /\ Reconciled
    /\ exhausted = 0
    /\ requests.any = 1
    /\ requests.create = 1
    /\ ~Truthy(existingRecipient)
    /\ Last(processedDepartments).Status = "Created"

\* C7: a department string shorter than 13 characters fails Validate as too
\* short, Parse is not invoked for it, and it is recorded as ValidationError.
TooShortRejected ==
    \A i \in 1..position :
        Len(depts[i]) < 13 =>
            /\ i \notin parsed
            /\ ~(i = position /\ pc = "parse")
            /\ i = position => formatValidation = [IsValid |-> FALSE, Error |-> TooShort]
            /\ \E k \in 1..Len(processedDepartments) :
                    processedDepartments[k] =
                        Outcome(depts[i], "ValidationError", TooShort,
                                NullString, NullString, NullReason)

\* a string of 12 characters was rejected
TooShortWitness ==
    /\ position = 1
    /\ Len(deptname) = 12
    /\ pc = "exit"
    /\ stats.ValidationErrors = 1

\* C8: Validate accepts a string if and only if it has at least 13 characters
\* and matches the grammar (3 upper-case letters at its end); a string of 13
\* or more characters that does not match fails with the pattern mismatch.
ValidateIffGrammar ==
    position >= 1 =>
        /\ formatValidation.IsValid <=> (Len(deptname) >= 13 /\ GrammarMatch(deptname))
        /\ (Len(deptname) >= 13 /\ ~GrammarMatch(deptname)) =>
                formatValidation = [IsValid |-> FALSE, Error |-> InvalidFormat]

\* C9: a call of the retry executor with MaxRetries >= 1 makes no attempt
\* after one that succeeded and at most MaxRetries attempts; it returns when
\* an attempt succeeds or the last allowed attempt fails; with attempts
\* 1..k-1 failed and attempt k succeeded it returns success after exactly k
\* invocations, and with all MaxRetries attempts failed it returns a failure
\* that carries the error of the final attempt.
RetryOutcome ==
    \A c \in {call, finished} :
        c.MaxRetries >= 1 =>
            LET k == Len(c.invoked) IN
            /\ k <= c.MaxRetries
            /\ \A i \in 1..(k - 1) : ~c.invoked[i]
            /\ c.returned <=> (k >= 1 /\ (c.invoked[k] \/ k = c.MaxRetries))
            /\ (c.returned /\ c.invoked[k]) =>
                    (c.result.Success /\ c.result.Error = NullError)
            /\ (c.returned /\ ~c.invoked[k]) =>
                    /\ ~c.result.Success
                    /\ k = c.MaxRetries
                    /\ c.result.Error = ExceptionMessage(k)

\* a call that failed twice and succeeded at its third attempt
RetryOutcomeWitness ==
    /\ finished.returned
    /\ finished.result.Success
    /\ finished.invoked = <<FALSE, FALSE, TRUE>>

\* C10: in a dry run no create and no update call is issued and the directory
\* stays as it was when the run started.
DryRunNoMutation ==
    WhatIf =>
        /\ requests.create = 0
        /\ requests.update = 0
        /\ pc \notin {"create", "update"}
        /\ directory = started

\* a dry run ended that parsed a department whose group name was free
DryRunWitness ==
    /\ WhatIf
    /\ LoopEnded
    /\ position \in parsed
    /\ components.Success
    /\ ~NameInUse(directory, groupName)

\* ValidationErrors + ProcessingErrors of the counters
TotalErrors(s) == s.ValidationErrors + s.ProcessingErrors

\* C11: a run that went through the department loop exits with code 0 when
\* ValidationErrors + ProcessingErrors is 0 and with code 1 otherwise, whatever
\* the number of skipped departments.
ExitCodeRule ==
    LoopEnded =>
        /\ exitCode \in {0, 1}
        /\ exitCode = 0 <=> TotalErrors(stats) = 0

\* a run ended with code 0 that skipped a department and counted no error
ExitCodeWitness ==
    /\ LoopEnded
    /\ stats.Skipped >= 1
    /\ TotalErrors(stats) = 0
    /\ exitCode = 0

\* the connection or the listing returned without success
FatalFailed ==
    /\ finished.OperationName \in {"Exchange Connection", "Get Departments"}
    /\ finished.returned
    /\ ~finished.result.Success

\* C12: when the connection or the listing fails on all its attempts the run
\* exits with code 1 without entering the department loop: no department is
\* taken or counted, no report is printed, no lookup, create or update call
\* is issued and the directory is as it was.
FatalFailure ==
    FatalFailed =>
        /\ pc = "exit"
        /\ exitCode = 1
        /\ ~report.printed
        /\ position = 0
        /\ stats = NewStats
        /\ processedDepartments = <<>>
        /\ requests = NoRequests
        /\ parsed = {}
        /\ directory = started

\* the listing of a non-empty directory failed on each of two or more attempts
FatalFailureWitness ==
    /\ FatalFailed
    /\ finished.OperationName = "Get Departments"
    /\ MaxRetries >= 2
    /\ Len(finished.invoked) = MaxRetries
    /\ Len(recipients) > 0
    /\ pc = "exit"

\* Created + Updated + Skipped + ValidationErrors + ProcessingErrors
BucketSum(s) ==
    s.Created + s.Updated + s.Skipped + s.ValidationErrors + s.ProcessingErrors

\* the script is between two departments, or past the last one
BetweenDepartments == pc \in {"loop", "exit"}

\* C13: each department taken increments TotalProcessed once and exactly one
\* of the five buckets once, so between departments, in every mode, the
\* buckets add up to TotalProcessed, the number of departments taken.
CounterAccounting ==
    BetweenDepartments =>
        /\ stats.TotalProcessed = position
        /\ BucketSum(stats) = stats.TotalProcessed

\* an existence lookup of the current department returned without success
LookupFailed ==
    /\ finished.OperationName \in {"Check Existing Recipient", "Check Existing DDG"}
    /\ finished.returned
    /\ ~finished.result.Success

\* C15: when an existence lookup (of any object, or of the dynamic group)
\* fails on all its attempts, no create and no update call is issued for the
\* department and the department is recorded as an error, counted once in
\* ProcessingErrors.
LookupFailureRecorded ==
    (Reconciling /\ LookupFailed) =>
        /\ pc \notin {"create", "update"}
        /\ requests.create = 0
        /\ requests.update = 0
        /\ BetweenDepartments =>
            /\ Len(processedDepartments) >= 1
            /\ Last(processedDepartments).Department = deptname
            /\ IsErrorStatus(Last(processedDepartments).Status)
            /\ stats.ProcessingErrors >= 1

\* C17: one outcome record is appended per department taken, in every mode:
\* between departments the outcome sequence is as long as TotalProcessed.
OutcomePerDepartment ==
    BetweenDepartments => Len(processedDepartments) = stats.TotalProcessed

\* r is the hundredth of a percent nearest to 100 * count / total
NearestHundredth(r, count, total) ==
    /\ 2 * (r * total - 10000 * count) <= total
    /\ 2 * (10000 * count - r * total) <= total

\* the counters of the scenario: 10 departments, 4 created, 2 updated, 2
\* failed validation, 2 failed the remote create
ScenarioStats ==
    [Created |-> 4, Updated |-> 2, Skipped |-> 0, ValidationErrors |-> 2,
     ProcessingErrors |-> 2, TotalProcessed |-> 10]

\* C14: the report computes successCount = Created + Updated and totalErrors =
\* ValidationErrors + ProcessingErrors, and its rates are 100 * successCount /
\* TotalProcessed and 100 * totalErrors / TotalProcessed to the hundredth of a
\* percent it prints; for 10 departments with 4 created, 2 updated, 2 failing
\* validation and 2 failing the remote create on all attempts it reports
\* successCount 6, totalErrors 4, 60 % and 40 %.
ReportArithmetic ==
    LoopEnded =>
        /\ report.successCount = stats.Created + stats.Updated
        /\ report.totalErrors = stats.ValidationErrors + stats.ProcessingErrors
        /\ NearestHundredth(report.successRate, report.successCount,
                            stats.TotalProcessed)
        /\ NearestHundredth(report.errorRate, report.totalErrors,
                            stats.TotalProcessed)
        /\ stats = ScenarioStats =>
            /\ report.successCount = 6
            /\ report.totalErrors = 4
            /\ report.successRate = 6000
            /\ report.errorRate = 4000

\* the scenario's run ended: 2 validation errors, 2 updates, 4 creations and
\* 2 create calls that failed on every attempt
ReportArithmeticWitness ==
    /\ LoopEnded
    /\ stats = ScenarioStats
    /\ Len(processedDepartments) = 10
    /\ Cardinality({i \in 1..10 : processedDepartments[i].Status = "CreateError"}) = 2
    /\ Cardinality({i \in 1..10 : processedDepartments[i].Status = "ValidationError"}) = 2
    /\ finished.OperationName = "Create DDG"
    /\ Len(finished.invoked) = MaxRetries
    /\ ~finished.result.Success

\* the department taken last failed validation or parsing
CurrentFails ==
    /\ position >= 1
    /\ \/ ~formatValidation.IsValid
       \/ position \in parsed /\ ~components.Success

\* the departments taken before the current one that passed Validate and Parse
EarlierParsed == {i \in 1..(position - 1) : Parses(depts[i])}

\* the group name, display name and filter the script builds for a department
IdentityOf(s) ==
    LET c == Get_DepartmentComponents(s)
    IN  <<GroupName(c), DisplayName(c), New_RecipientFilter(c.Number, c.CountryCode)>>

\* $groupName, $displayName and $recipientFilter are as the last department
\* that passed Validate and Parse left them, or were never set
NoIdentityBuilt ==
    <<groupName, displayName, recipientFilter>> =
        IF EarlierParsed = {}
        THEN <<NullString, NullString, NullString>>
        ELSE IdentityOf(depts[CHOOSE i \in EarlierParsed :
                                    \A j \in EarlierParsed : j <= i])

\* C16: a department that failed validation or parsing is recorded and gets no
\* further processing: no group name, display name or filter is built for it,
\* no lookup, create or update call is issued for it, and the script is back
\* at the head of the loop, where the next department is taken.
NoFurtherProcessing ==
    CurrentFails =>
        /\ pc \in {"parse", "loop", "exit"}
        /\ pc = "parse" => formatValidation.IsValid
        /\ requests = NoRequests
        /\ NoIdentityBuilt
        /\ pc # "parse" =>
            /\ Len(processedDepartments) >= 1
            /\ Last(processedDepartments).Department = deptname
            /\ Last(processedDepartments).Status \in {"ValidationError", "ParsingError"}
            /\ Last(processedDepartments).GroupName = NullString

\* after a department that failed parsing the next department is being
\* looked up
NoFurtherProcessingWitness ==
    /\ position = 2
    /\ ~Test_DepartmentFormat(depts[1]).IsValid \/ ~Get_DepartmentComponents(depts[1]).Success
    /\ processedDepartments[1].Status = "ParsingError"
    /\ pc = "checkRecipient"

\* the position in the listing of the department of the k-th outcome record
RecordPosition(k) ==
    CHOOSE i \in 1..Len(depts) : depts[i] = processedDepartments[k].Department

\* the department at position i of the listing has its outcome record
Recorded(i) ==
    \E k \in 1..Len(processedDepartments) :
        processedDepartments[k].Department = depts[i]

\* the outcome records belong to departments taken so far and stand in the
\* order of the listing
RecordsInInputOrder ==
    /\ \A k \in 1..Len(processedDepartments) :
            \E i \in 1..position : depts[i] = processedDepartments[k].Department
    /\ \A k1, k2 \in 1..Len(processedDepartments) :
            k1 < k2 => RecordPosition(k1) < RecordPosition(k2)

\* C18: departments are processed one after another: while a department is
\* in work every department before it has its outcome record, between
\* departments the department taken last has it too, and the records stand in
\* the outcome sequence in the input order of their departments.
OutcomeOrder ==
    /\ \A i \in 1..(position - 1) : Recorded(i)
    /\ (BetweenDepartments /\ position >= 1) => Recorded(position)
    /\ RecordsInInputOrder

\* s consists of n characters of the set
AllIn(s, n, set) == Len(s) = n /\ \A i \in 1..n : s[i] \in set

\* C19: the components of a department that passed Validate and Parse have a
\* Number of exactly 5 digits, a CountryCode of exactly 3 upper-case letters
\* and a Name that is not blank after trimming, and the group name built from
\* them (the one looked up, created or updated) is 5 digits followed by 3
\* upper-case letters.
ParsedWellFormed ==
    (position \in parsed /\ components.Success) =>
        /\ AllIn(components.Number, 5, Digits)
        /\ AllIn(components.CountryCode, 3, UpperLetters)
        /\ ~IsNullOrWhiteSpace(Trim(components.Name))
        /\ AllIn(SubSeq(groupName, 1, 5), 5, Digits)
        /\ AllIn(SubSeq(groupName, 6, Len(groupName)), 3, UpperLetters)

\* C20: a run that opened a session to Exchange Online issues one disconnect
\* before it exits, on each of its exit paths (listing failed, listing empty,
\* loop completed with or without errors), and a run that opened none issues
\* no disconnect.
ConnectionCleanup ==
    /\ sessions.closed <= sessions.opened
    /\ connected <=> sessions.opened > sessions.closed
    /\ pc = "exit" =>
        /\ ~connected
        /\ sessions.closed = sessions.opened
        /\ sessions.opened = 0 <=>
            (finished.OperationName = "Exchange Connection" /\ ~finished.result.Success)

\* a run that connected and then failed to list the departments has exited
ConnectionCleanupWitness ==
    /\ pc = "exit"
    /\ sessions = [opened |-> 1, closed |-> 1]
    /\ finished.OperationName = "Get Departments"
    /\ ~finished.result.Success
    /\ exitCode = 1

\* the frames of the executor the state holds: the call in progress and the
\* call that returned last
Frames == {call, finished}

SleepsBetweenAttempts ==
    \A c \in Frames :
        /\ (c.returned /\ Len(c.invoked) >= 1) => Len(c.slept) = Len(c.invoked) - 1
        /\ ~c.returned => Len(c.slept) = Len(c.invoked)
        /\ \A n \in 1..(Len(c.slept) - 1) : c.slept[n] < c.slept[n + 1]

\* a call failed on each of its three attempts and slept twice
SleepsBetweenAttemptsWitness ==
    /\ finished.returned
    /\ ~finished.result.Success
    /\ finished.invoked = <<FALSE, FALSE, FALSE>>
    /\ Len(finished.slept) = 2

\* the two existence lookups
Lookups == {"Check Existing Recipient", "Check Existing DDG"}

\* the most attempts a call of the operation may make: 2 for a lookup, the
\* run's -MaxRetries for the connection, the listing, create and update
AttemptBound(name) == IF name \in Lookups THEN 2 ELSE MaxRetries

\* every call stays within the bound of its class
WithinAttemptBounds ==
    /\ \A c \in Frames : Len(c.invoked) <= AttemptBound(c.OperationName)
    /\ requests.any <= 2
    /\ requests.typed <= 2
    /\ requests.create <= MaxRetries
    /\ requests.update <= MaxRetries

\* C23 as claimed: every call stays within the bound of its class, and the
\* bound of the lookups a run performs is smaller than the run's configured
\* bound.
RetryBoundsAsClaimed ==
    /\ WithinAttemptBounds
    /\ pc \in {"checkRecipient", "checkDDG"} => 2 < MaxRetries

\* C23, amended: each lookup is attempted at most 2 times whatever -MaxRetries
\* is, the other calls at most -MaxRetries times; the lookup bound is the
\* smaller one exactly when -MaxRetries is greater than 2 (as the default 3).
RetryBounds ==
    /\ WithinAttemptBounds
    /\ \A c \in Frames :
        c.OperationName \in Lookups =>
            /\ c.MaxRetries = 2
            /\ c.MaxRetries < MaxRetries <=> MaxRetries > 2

\* with -MaxRetries 1 a lookup was attempted twice
RetryBoundsWitness ==
    /\ MaxRetries = 1
    /\ finished.OperationName \in Lookups
    /\ Len(finished.invoked) = 2

\* the number of outcome records with one of the statuses
CountStatus(statuses) ==
    Cardinality({k \in 1..Len(processedDepartments) :
                    processedDepartments[k].Status \in statuses})

\* C24 as claimed: a department that passes Validate and fails Parse is
\* counted in ProcessingErrors; ValidationErrors counts the Validate failures
\* only.
ParseErrorBucketAsClaimed ==
    /\ stats.ValidationErrors = CountStatus({"ValidationError"})
    /\ stats.ProcessingErrors =
           CountStatus({"ParsingError", "CreateError", "UpdateError",
                        "UnexpectedError"})

\* C24, amended: a department that passes Validate and fails Parse is
\* recorded as ParsingError and counted in ValidationErrors, the bucket of
\* format and parsing failures, and leaves ProcessingErrors unchanged;
\* ProcessingErrors counts the CreateError, UpdateError and UnexpectedError
\* outcomes.
ParseErrorBucket ==
    /\ stats.ValidationErrors = CountStatus({"ValidationError", "ParsingError"})
    /\ stats.ProcessingErrors =
           CountStatus({"CreateError", "UpdateError", "UnexpectedError"})

\* a department passed Validate, failed Parse and was counted
ParseErrorBucketWitness ==
    /\ position = 1
    /\ formatValidation.IsValid
    /\ position \in parsed
    /\ ~components.Success
    /\ Last(processedDepartments).Status = "ParsingError"
    /\ stats.ValidationErrors = 1
    /\ stats.ProcessingErrors = 0

\* the create or update call of the current department returned
Executed ==
    /\ Reconciled
    /\ finished.OperationName \in {"Create DDG", "Update DDG"}
    /\ finished.returned

\* the statuses of success and of failure of an operation
SuccessStatus(name) == IF name = "Create DDG" THEN "Created" ELSE "Updated"
FailureStatus(name) == IF name = "Create DDG" THEN "CreateError" ELSE "UpdateError"

\* C25: a create (update) call that failed on all MaxRetries attempts is
\* recorded as CreateError (UpdateError) with the department string and the
\* error message of the call; a call that succeeded is recorded as Created
\* (Updated) with the group name and the display name; each failure counts
\* once in ProcessingErrors and in neither Created nor Updated, each success
\* once in its own counter.
ExecuteMapping ==
    /\ (Executed /\ ~finished.result.Success) =>
            /\ Len(finished.invoked) = MaxRetries
            /\ Last(processedDepartments) =
                   Outcome(deptname, FailureStatus(finished.OperationName),
                           finished.result.Error, NullString, NullString,
                           NullReason)
            /\ MaxRetries >= 1 =>
                   Last(processedDepartments).Error = ExceptionMessage(MaxRetries)
    /\ (Executed /\ finished.result.Success) =>
            /\ Len(finished.invoked) <= MaxRetries
            /\ Last(processedDepartments) =
                   Outcome(deptname, SuccessStatus(finished.OperationName),
                           NullError, GroupName(components),
                           DisplayName(components), NullReason)
    /\ stats.Created = CountStatus({"Created"})
    /\ stats.Updated = CountStatus({"Updated"})
    /\ stats.ProcessingErrors = CountStatus({"CreateError", "UpdateError"})

\* an update call failed on each of its three attempts and was recorded
ExecuteMappingWitness ==
    /\ Executed
    /\ finished.OperationName = "Update DDG"
    /\ finished.invoked = <<FALSE, FALSE, FALSE>>
    /\ Last(processedDepartments).Status = "UpdateError"
    /\ stats.ProcessingErrors = 1
    /\ stats.Updated = 0

\* the department at position p has an UnexpectedError record
RecordedUnexpected(p) ==
    \E k \in 1..Len(processedDepartments) :
        /\ processedDepartments[k].Department = depts[p]
        /\ processedDepartments[k].Status = "UnexpectedError"

\* C26: a fault raised at any step of a department's sequence is caught at
\* the department boundary: once the script is past that department's steps
\* the department has an UnexpectedError record with its string, each fault
\* counted once in ProcessingErrors, and the run goes on with the next
\* department, so it ends through the report after the last one.
FaultIsolation ==
    /\ \A p \in faults :
            (p < position \/ BetweenDepartments) => RecordedUnexpected(p)
    /\ BetweenDepartments =>
            /\ CountStatus({"UnexpectedError"}) = Cardinality(faults)
            /\ stats.ProcessingErrors =
                   CountStatus({"CreateError", "UpdateError", "UnexpectedError"})
    /\ (pc = "exit" /\ Len(depts) > 0) =>
            /\ report.printed
            /\ position = Len(depts)

\* the records of a sequence whose status is in a set, in their order
RECURSIVE RecordsOf(_, _)
RecordsOf(records, statuses) ==
    IF records = <<>> THEN <<>>
    ELSE IF Head(records).Status \in statuses
         THEN <<Head(records)>> \o RecordsOf(Tail(records), statuses)
         ELSE RecordsOf(Tail(records), statuses)

\* the error classifications of an outcome
ErrorStatuses ==
    {"ValidationError", "ParsingError", "LookupError", "CreateError",
     "UpdateError", "UnexpectedError"}

\* C27: at the end of a completed run the error listing holds exactly the
\* outcome records with an error classification, in processing order, and
\* totalErrors of them; the success listing holds exactly the Created and
\* Updated records, in processing order, and successCount of them; a Skipped
\* record is in neither listing.
ReportListings ==
    LoopEnded =>
        /\ report.errorDepartments = RecordsOf(processedDepartments, ErrorStatuses)
        /\ Len(report.errorDepartments) = report.totalErrors
        /\ report.successDepartments =
                RecordsOf(processedDepartments, {"Created", "Updated"})
        /\ Len(report.successDepartments) = report.successCount
        /\ \A k \in 1..Len(report.errorDepartments) :
                report.errorDepartments[k].Status # "Skipped"
        /\ \A k \in 1..Len(report.successDepartments) :
                report.successDepartments[k].Status # "Skipped"

ReportListingsWitness ==
    /\ LoopEnded
    /\ Len(processedDepartments) = 3
    /\ \E k \in 1..3 : processedDepartments[k].Status = "Skipped"
    /\ Len(report.errorDepartments) = 1
    /\ Len(report.successDepartments) = 1

\* 100 %, in the hundredths of a percent the rates are kept in
FullRate == 10000

ExhaustedCall(c) ==
    /\ c.returned
    /\ ~c.returnedNull
    /\ ~c.result.Success

UpdatePrecondition ==
    /\ (pc = "checkDDG" \/ requests.typed >= 1) =>
            /\ requests.any >= 1
            /\ Truthy(existingRecipient)
            /\ existingRecipient.Name = groupName
    /\ (pc = "update" \/ requests.update >= 1) =>
            /\ requests.any >= 1
            /\ requests.typed >= 1
            /\ Truthy(existingRecipient)
            /\ \E o \in directory : o.Name = groupName /\ o.Kind = DynamicGroup
    /\ pc = "update" =>
            /\ finished.OperationName = "Check Existing DDG"
            /\ finished.returned
            /\ finished.result.Success
            /\ finished.result.Result.Kind = DynamicGroup
            /\ finished.result.Result.Name = groupName

\* an update call was issued and returned success
UpdatePreconditionWitness ==
    /\ requests.update >= 1
    /\ requests.any >= 1
    /\ requests.typed >= 1
    /\ finished.OperationName = "Update DDG"
    /\ finished.returned
    /\ finished.result.Success

\* the minimum viable form: 5 digits, space, a 1-character name,
\* space-dash-space, a 3-letter code
MinimalForm == <<"1","2","3","4","5"," ","A"," ","-"," ","U","S","A">>

\* C31: every string Validate accepts is parsed successfully by Parse, and
\* for the minimum viable 13-character form the parsed Name is its one
\* character.
ValidatorParserAgreement ==
    (position \in parsed /\ formatValidation.IsValid) =>
        /\ components.Success
        /\ deptname = MinimalForm => components.Name = <<"A">>

\* the current department has a record with one of the statuses
CurrentRecorded(statuses) ==
    \E k \in 1..Len(processedDepartments) :
        /\ processedDepartments[k].Department = deptname
        /\ processedDepartments[k].Status \in statuses

\* C32: the processing of one department issues calls of at most one
\* mutating kind, never a create call and an update call, and a department
\* recorded as Skipped, ValidationError or ParsingError issues neither.
OneMutatingKind ==
    /\ requests.create = 0 \/ requests.update = 0
    /\ CurrentRecorded({"Skipped", "ValidationError", "ParsingError"}) =>
            /\ requests.create = 0
            /\ requests.update = 0
    /\ CurrentRecorded({"Created", "CreateError"}) =>
            requests.create >= 1 /\ requests.update = 0
    /\ CurrentRecorded({"Updated", "UpdateError"}) =>
            requests.update >= 1 /\ requests.create = 0

\* a department recorded as Skipped after both lookups, the one before it
\* having been created
OneMutatingKindWitness ==
    /\ pc = "loop"
    /\ Len(processedDepartments) = 2
    /\ processedDepartments[1].Status = "Created"
    /\ processedDepartments[2].Status = "Skipped"
    /\ processedDepartments[2].Department = deptname
    /\ requests.any >= 1
    /\ requests.typed >= 1
    /\ requests.create = 0
    /\ requests.update = 0

\* the script has ended with an exit code
Terminated == pc = "exit" /\ exitCode \in {0, 1}

\* C33: with -MaxRetries >= 1 and every remote call returning, the run ends
\* with an exit code, and on the way each department causes at most 2
\* attempts of the any-object lookup, at most 2 of the typed lookup and at
\* most -MaxRetries create or update attempts, the connection and the listing
\* at most -MaxRetries attempts each.
TerminationAndCallBound ==
    /\ []WithinAttemptBounds
    /\ [](requests.create + requests.update <= MaxRetries)
    /\ <>Terminated

\* a run over two departments ended after a create call used up its three attempts
TerminationAndCallBoundWitness ==
    /\ Terminated
    /\ MaxRetries = 3
    /\ position = 2
    /\ finished.OperationName = "Create DDG"
    /\ Len(finished.invoked) = 3
    /\ requests.create = 3
    /\ requests.any >= 1

\* A completed run, not a dry run, over two distinct department strings that
\* pass Validate and Parse and share Number and CountryCode, started with the
\* name free, in which no remote call returned a failure.
CollidingRun ==
    /\ LoopEnded
    /\ ~WhatIf
    /\ Len(depts) = 2
    /\ depts[1] # depts[2]
    /\ Parses(depts[1])
    /\ Parses(depts[2])
    /\ GroupName(Get_DepartmentComponents(depts[1]))
            = GroupName(Get_DepartmentComponents(depts[2]))
    /\ ~NameInUse(started, GroupName(Get_DepartmentComponents(depts[1])))
    /\ exhausted = 0

\* C34: when two distinct department strings of one run share Number and
\* CountryCode, the name is free at the start and the remote calls succeed,
\* the first is recorded Created and the second Updated, exactly one object
\* bears the name afterwards, a dynamic group, both departments derive the
\* same filter, which is the group's, and the group's display name is the one
\* derived from the later department.
NameCollision ==
    CollidingRun =>
        LET first == Get_DepartmentComponents(depts[1])
            second == Get_DepartmentComponents(depts[2])
            named == {o \in directory : o.Name = GroupName(first)}
        IN  /\ Len(processedDepartments) = 2
            /\ processedDepartments[1].Department = depts[1]
            /\ processedDepartments[1].Status = "Created"
            /\ processedDepartments[2].Department = depts[2]
            /\ processedDepartments[2].Status = "Updated"
            /\ New_RecipientFilter(first.Number, first.CountryCode)
                    = New_RecipientFilter(second.Number, second.CountryCode)
            /\ Cardinality(named) = 1
            /\ \A o \in named :
                    /\ o.Kind = DynamicGroup
                    /\ o.DisplayName = DisplayName(second)
                    /\ o.RecipientFilter =
                            New_RecipientFilter(second.Number, second.CountryCode)

\* Finance then Payroll of 12345 / USA: the group ends with Payroll's display name
NameCollisionWitness ==
    /\ CollidingRun
    /\ depts = <<DeptFinanceUSA, DeptPayrollUSA>>
    /\ \E o \in directory :
            /\ o.Name = <<"1","2","3","4","5","U","S","A">>
            /\ o.DisplayName = displayName
            /\ o.DisplayName # DisplayName(Get_DepartmentComponents(DeptFinanceUSA))

\* C35: with -MaxRetries <= 0 the retry executor never invokes the operation
\* and returns neither a success nor a failure result ($null); the run takes
\* the connection as failed and exits with code 1, with no connection
\* attempt, no department processed and no directory call.
OutOfRangeRetryBound ==
    MaxRetries <= 0 =>
        /\ \A c \in Frames : c.invoked = <<>> /\ c.slept = <<>> /\ c.logged = <<>>
        /\ call.OperationName = "Exchange Connection"
        /\ call.returned => call.returnedNull
        /\ pc \in {"connect", "exit"}
        /\ pc = "connect" <=> ~call.returned
        /\ pc = "exit" => exitCode = 1 /\ ~report.printed
        /\ sessions.opened = 0
        /\ ~connected
        /\ depts = <<>>
        /\ position = 0
        /\ stats = NewStats
        /\ processedDepartments = <<>>
        /\ requests = NoRequests
        /\ directory = started

\* a run started with a negative -MaxRetries has ended
OutOfRangeRetryBoundWitness ==
    /\ MaxRetries < 0
    /\ Len(recipients) > 0
    /\ pc = "exit"
    /\ exitCode = 1
    /\ call.returnedNull
    /\ call.invoked = <<>>

\* the nodes the arrows lead to from a set of nodes, in any number of steps
RECURSIVE ReachableFrom(_)
ReachableFrom(set) ==
    LET more == set \cup {b \in NodeIds : \E a \in set : Connected(a, b)}
    IN  IF more = set THEN set ELSE ReachableFrom(more)

\* every node is reachable from 'start' and can reach an end node
FlowchartConnected ==
    \A n \in NodeIds :
        /\ n \in ReachableFrom({"start"})
        /\ \E e \in ReachableFrom({n}) : NodeOf(e).type = "end"

\* each step the script takes follows the arrows of the flowchart
TrailInFlowchart ==
    \A k \in 1..(Len(Trail) - 1) : Connected(Trail[k], Trail[k + 1])

\* C36: the documented flowchart simulates the script: every control
\* transition the script takes between the documented steps (parse failure,
\* create and update failure, listing failure and the end with exit code 1
\* after recorded errors included) follows an arrow of the flowchart, and
\* every node is reachable from 'start' and can reach an end node.
FlowchartFidelity ==
    /\ []FlowchartConnected
    /\ [][TrailInFlowchart]_vars

\* the step taken is one of the four actions of the view
ZoomInStep == zoom' = Min(zoom + 2, 30) /\ UNCHANGED <<selectedNode, highlightedPath>>
ZoomOutStep == zoom' = Max(zoom - 2, 5) /\ UNCHANGED <<selectedNode, highlightedPath>>
ResetStep == zoom' = 10 /\ selectedNode' = NoNode /\ highlightedPath' = <<>>
ClickStep ==
    /\ selectedNode' \in NodeIds
    /\ highlightedPath' = <<selectedNode'>> \o NodeOf(selectedNode').connections
    /\ zoom' = zoom

\* C37: after any sequence of zoom-in, zoom-out, node-click and reset actions
\* the zoom factor stays within [0.5, 3] (5..30 tenths): zoom-in adds 0.2
\* capped at 3, zoom-out subtracts 0.2 floored at 0.5, reset sets the zoom to 1
\* and clears the selected node and the highlighted path, a node click sets
\* the highlighted path to the node followed by its connections and leaves
\* the zoom alone.
ViewState ==
    /\ [](zoom \in 5..30)
    /\ [](selectedNode = NoNode => highlightedPath = <<>>)
    /\ [](selectedNode # NoNode =>
            highlightedPath = <<selectedNode>> \o NodeOf(selectedNode).connections)
    /\ [][ZoomInStep \/ ZoomOutStep \/ ResetStep \/ ClickStep]_view

\* zoomed in to the cap with a decision node selected
ViewStateWitness ==
    /\ zoom = 30
    /\ selectedNode = "connect_check"
    /\ highlightedPath = <<"connect_check", "get_depts", "connect_error">>
====
